---- MODULE Spec2Model ----
(***************************************************************************)
(* Model of solver/src/heuristic_solver.py: the greedy constructor, the    *)
(* objective evaluator, the feasibility checker and the two search         *)
(* drivers (local_search, simulated_annealing) with their three moves.     *)
(*                                                                         *)
(* Agents, tasks and slots keep the 0-based numbering of the source; a     *)
(* Python list is a TLA+ sequence, so list[i] is written seq[i + 1].       *)
(***************************************************************************)
EXTENDS Integers, Sequences, FiniteSets, TLC

(***************************************************************************)
(* Bounds of the model.                                                    *)
(***************************************************************************)
\* Largest max_iter a driver is called with.
MaxIter == 3
\* Largest candidate_moves (stagnation limit) a driver is called with.
MaxCandidateMoves == 2

\* longest slot of a schedule handed to is_feasible or evaluate_max_agent_cost
MaxRow == 2

(***************************************************************************)
(* Small helpers on sequences and integers.                                *)
(***************************************************************************)
Min(a, b) == IF a <= b THEN a ELSE b

RECURSIVE Gcd(_, _)
Gcd(a, b) == IF b = 0 THEN a ELSE Gcd(b, a % b)

RECURSIVE Pow10(_)
Pow10(e) == IF e = 0 THEN 1 ELSE 10 * Pow10(e - 1)

\* list.pop(i) that leaves the list as it is
PopKeeping(s, i) == s

\* list.pop(i) seen as a value: the list without its element at 0-based i.
Pop(s, i) == SubSeq(s, 1, i) \o SubSeq(s, i + 2, Len(s))

\* list.insert(i, x) seen as a value, 0 <= i <= len.
Insert(s, i, x) == SubSeq(s, 1, i) \o <<x>> \o SubSeq(s, i + 1, Len(s))

\* s with the list at 0-based slot t replaced by row.
SetSlot(s, t, row) == [s EXCEPT ![t + 1] = row]

(***************************************************************************)
(* The inputs: resources, agent_tasks, dependencies.                       *)
(***************************************************************************)
\* spec scenario S1: one slot, one agent.
InstS1 ==
  [resources |-> <<3>>, agent_tasks |-> << <<1, 2>> >>,
   dependencies |-> << <<{}, {}>> >>]

\* spec scenario S2: a precedence edge forces the later slot.
InstS2 ==
  [resources |-> <<2, 2>>, agent_tasks |-> << <<2, 2>> >>,
   dependencies |-> << <<{}, {0}>> >>]

\* spec scenario S3: two agents, four unit tasks.
InstS3 ==
  [resources |-> <<2, 2>>, agent_tasks |-> << <<1, 1>>, <<1, 1>> >>,
   dependencies |-> << <<{}, {}>>, <<{}, {}>> >>]

\* spec scenario S6: the only task fits in no slot.
InstS6 ==
  [resources |-> <<1, 1>>, agent_tasks |-> << <<2>> >>,
   dependencies |-> << <<{}>> >>]

\* the second task depends on the first and fits in no slot.
InstTight ==
  [resources |-> <<1, 1>>, agent_tasks |-> << <<1, 2>> >>,
   dependencies |-> << <<{}, {0}>> >>]

\* a task of size 2 facing three unit tasks: swap, relocate and multi-swap
\* all find feasible candidates here.
InstMulti ==
  [resources |-> <<2, 4>>, agent_tasks |-> << <<2, 1>>, <<1, 1>> >>,
   dependencies |-> << <<{}, {}>>, <<{}, {0}>> >>]

\* three slots, the last one left empty by the greedy constructor.
InstSlack ==
  [resources |-> <<2, 2, 2>>, agent_tasks |-> << <<1, 1>>, <<1>> >>,
   dependencies |-> << <<{}, {0}>>, <<{}>> >>]

\* task 0 depends on itself.
InstSelfLoop ==
  [resources |-> <<2, 2>>, agent_tasks |-> << <<1, 1>> >>,
   dependencies |-> << <<{0}, {}>> >>]

\* tasks 0 and 1 depend on each other.
InstCycle ==
  [resources |-> <<2, 2>>, agent_tasks |-> << <<1, 1>> >>,
   dependencies |-> << <<{1}, {0}>> >>]

\* task 1 depends on task 5, which does not exist.
InstOutOfRange ==
  [resources |-> <<2, 2>>, agent_tasks |-> << <<1, 1>> >>,
   dependencies |-> << <<{}, {5}>> >>]

\* nine tasks: 1 and 8 are ready from the start and have the same size; the
\* others form a chain behind task 1, so that no other two tasks are ever
\* ready together.
InstNine ==
  [resources |-> <<2, 14>>,
   agent_tasks |-> << <<2, 1, 2, 2, 2, 2, 2, 2, 1>> >>,
   dependencies |-> << <<{1}, {}, {0}, {2}, {3}, {4}, {5}, {6}, {}>> >>]

WellFormedInstances ==
  {InstS1, InstS2, InstS3, InstS6, InstTight, InstMulti, InstSlack}

MalformedInstances == {InstSelfLoop, InstCycle, InstOutOfRange}

Instances == WellFormedInstances \cup MalformedInstances

NumAgents(in) == Len(in.agent_tasks)

NumTasks(in, k) == Len(in.agent_tasks[k + 1])

\* the largest node id of the instances
MaxNode == 8

\* the (k, i) pairs the input declares
AllTasks(in) ==
  {p \in (0..(NumAgents(in) - 1)) \X (0..MaxNode) : p[2] < NumTasks(in, p[1])}

(***************************************************************************)
(* create_agents_dag: one graph per agent. add_node(idx, size=size) for    *)
(* every task, add_edge(dep, j) for every dep in dependencies[i][j];       *)
(* add_edge creates a missing endpoint as a node without a size.           *)
(***************************************************************************)
DagEdges(in, k) ==
  {e \in (0..MaxNode) \X (0..(Len(in.dependencies[k + 1]) - 1)) :
     e[1] \in in.dependencies[k + 1][e[2] + 1]}

DagNodes(in, k) ==
  (0..(NumTasks(in, k) - 1)) \cup
  {e[1] : e \in DagEdges(in, k)} \cup {e[2] : e \in DagEdges(in, k)}

create_agents_dag(in) ==
  [k \in 0..(NumAgents(in) - 1) |->
     [nodes |-> DagNodes(in, k),
      edges |-> DagEdges(in, k),
      size  |-> [i \in 0..(NumTasks(in, k) - 1) |-> in.agent_tasks[k + 1][i + 1]]]]

\* dag.in_degree(node)
InDegree(dag, node) == Cardinality({e \in dag.edges : e[2] = node})

\* dag.successors(node)
Successors(dag, node) == {e[2] : e \in {f \in dag.edges : f[1] = node}}

\* dag.nodes[task]['size'] raises KeyError for a node made by add_edge only
HasSize(dag, node) == node \in DOMAIN dag.size

(***************************************************************************)
(* Costs. agent_costs[k] / task_counts[k] is a quotient of two small       *)
(* integers; float division is correctly rounded, so two such quotients    *)
(* compare as the exact fractions do. A cost is a reduced fraction n/d,    *)
(* and float('inf') is 1/0.                                                *)
(***************************************************************************)
Inf == [n |-> 1, d |-> 0]

Frac(a, b) == IF b = 0 THEN Inf ELSE [n |-> a \div Gcd(a, b), d |-> b \div Gcd(a, b)]

\* a < b on floats (inf < inf is false, x < inf is true for finite x)
CostLess(a, b) == a.n * b.d < b.n * a.d

CostEq(a, b) == a.n * b.d = b.n * a.d

CostLeq(a, b) == CostLess(a, b) \/ CostEq(a, b)

(***************************************************************************)
(* evaluate_max_agent_cost                                                 *)
(***************************************************************************)
\* number of entries of agent k in one slot
CountInRow(row, k) == Cardinality({j \in 1..Len(row) : row[j][1] = k})

\* agent_costs[k] with slots numbered from 0 (enumerate without start=1)
RECURSIVE AgentCostFromZero(_, _, _)
AgentCostFromZero(S, k, t) ==
  IF t = 0 THEN 0 ELSE AgentCostFromZero(S, k, t - 1) + (t - 1) * CountInRow(S[t], k)

\* agent_costs[k]: every entry of agent k adds its 1-based slot number
RECURSIVE AgentCostUpTo(_, _, _)
AgentCostUpTo(S, k, t) ==
  IF t = 0 THEN 0 ELSE AgentCostUpTo(S, k, t - 1) + t * CountInRow(S[t], k)

\* task_counts[k]
RECURSIVE TaskCountUpTo(_, _, _)
TaskCountUpTo(S, k, t) ==
  IF t = 0 THEN 0 ELSE TaskCountUpTo(S, k, t - 1) + CountInRow(S[t], k)

\* avg_costs[k]
AvgCost(S, k) == Frac(AgentCostUpTo(S, k, Len(S)), TaskCountUpTo(S, k, Len(S)))

\* max(avg_costs[0..k])
RECURSIVE MaxAvgUpTo(_, _)
MaxAvgUpTo(S, k) ==
  IF k = 0 THEN AvgCost(S, 0)
  ELSE LET m == MaxAvgUpTo(S, k - 1)
           c == AvgCost(S, k)
       IN IF CostLess(m, c) THEN c ELSE m

evaluate_max_agent_cost(S, num_agents) == MaxAvgUpTo(S, num_agents - 1)

(***************************************************************************)
(* is_feasible                                                             *)
(***************************************************************************)
\* total of one slot: the sum of the sizes of its entries
RECURSIVE RowTotal(_, _)
RowTotal(row, dags) ==
  IF row = <<>> THEN 0
  ELSE dags[Head(row)[1]].size[Head(row)[2]] + RowTotal(Tail(row), dags)

CapacityOk(S, dags, resources) ==
  \A t \in 1..Len(S) : RowTotal(S[t], dags) <= resources[t]

\* the (slot, index) places where (agent, task) stands
Places(S, agent, task) ==
  UNION {{<<t, j>> : j \in {i \in 0..(Len(S[t + 1]) - 1) :
                                S[t + 1][i + 1] = <<agent, task>>}} :
         t \in 0..(Len(S) - 1)}

\* "Each task should appear only once."
NoDuplicate(S, dags) ==
  \A agent \in DOMAIN dags : \A task \in 0..MaxNode :
     Cardinality(Places(S, agent, task)) <= 1

\* lexicographic order on (slot, index within the slot)
PosLess(p, q) == p[1] < q[1] \/ (p[1] = q[1] /\ p[2] < q[2])

\* lines 106-115 without the test of line 108: an edge with an end that is not
\* scheduled is passed over
DependencyOkIfPlaced(S, dags) ==
  \A agent \in DOMAIN dags : \A e \in dags[agent].edges :
     \A p \in Places(S, agent, e[1]) : \A q \in Places(S, agent, e[2]) :
        PosLess(p, q)

DependencyOk(S, dags) ==
  \A agent \in DOMAIN dags : \A e \in dags[agent].edges :
     /\ Places(S, agent, e[1]) # {}
     /\ Places(S, agent, e[2]) # {}
     /\ \A p \in Places(S, agent, e[1]) : \A q \in Places(S, agent, e[2]) :
          PosLess(p, q)

\* is_feasible without its capacity loop (lines 89-94)
is_feasible_NoCapacity(S, dags, resources) ==
  /\ NoDuplicate(S, dags)
  /\ DependencyOk(S, dags)

is_feasible(S, dags, resources) ==
  /\ CapacityOk(S, dags, resources)
  /\ NoDuplicate(S, dags)
  /\ DependencyOk(S, dags)

(***************************************************************************)
(* State.                                                                  *)
(***************************************************************************)
VARIABLES
  input,               \* the call: algo, resources, agent_tasks, dependencies,
                       \* max_iter, candidate_moves, cooling, seed
  pc,                  \* where the call stands
  rng,                 \* the generator of the random module (process-wide)
  t,                   \* greedy_schedule: slot being filled
  available_capacity,  \* greedy_schedule
  schedule,            \* greedy_schedule: the schedule under construction
  ready,               \* greedy_schedule: ready[k], a set of tasks
  remaining_indegree,  \* greedy_schedule: remaining_indegree[k][node]
  iteration,           \* driver: loop iterations begun so far
  best_schedule,       \* driver
  best_cost,           \* driver
  current_schedule,    \* simulated_annealing
  current_cost,        \* simulated_annealing
  no_improve_count,    \* driver
  temperature,         \* simulated_annealing: T, as the decimal exponent e of 10^-e
  candidate_schedule,  \* driver: the candidate of this iteration
  move,                \* driver: locals of the move in progress
  result,              \* the returned schedule, or the raised exception
  run,                 \* 1 for the first call, 2 for its repetition
  first_result,        \* what the first call returned
  seed_cost,           \* history: cost of the greedy seed of this call
  visited_min          \* history: least current_cost seen in this call

vars ==
  <<input, pc, rng, t, available_capacity, schedule, ready, remaining_indegree,
    iteration, best_schedule, best_cost, current_schedule, current_cost,
    no_improve_count, temperature, candidate_schedule, move, result, run,
    first_result, seed_cost, visited_min>>

greedy_vars == <<t, available_capacity, schedule, ready, remaining_indegree>>

driver_vars ==
  <<iteration, best_schedule, best_cost, current_schedule, current_cost,
    no_improve_count, temperature, candidate_schedule, move, seed_cost,
    visited_min>>

(***************************************************************************)
(* The pseudo-random generator of the random module: one generator for     *)
(* the whole process. random.seed(None) seeds it from the entropy source:  *)
(* every later draw may be any value. random.seed(n) makes the draws a     *)
(* function of n; the generator is modelled by a small full-period         *)
(* congruential generator. A draw u stands for the float u / Grain.        *)
(***************************************************************************)
\* the drawn floats are 0/6 .. 5/6: both 0.33 and 0.66 fall between two of them
Grain == 6

RngModulus == 16

\* seed=None
NoSeed == -1

\* the seed of test2.py and a second one
SeedValues == {515125, 3}

RngAdvance(x) == (5 * x + 3) % RngModulus

RngOutput(x) == (x * Grain) \div RngModulus

\* random.seed(None) whatever the argument: the seed is ignored
RandomSeedIgnored(sd) == [seeded |-> FALSE, x |-> 0]

\* random.seed(seed)
RandomSeed(sd) ==
  IF sd = NoSeed THEN [seeded |-> FALSE, x |-> 0]
  ELSE [seeded |-> TRUE, x |-> sd % RngModulus]

\* the values the next draw of generator r may return
Draws(r) == IF r.seeded THEN {RngOutput(RngAdvance(r.x))} ELSE 0..(Grain - 1)

\* the generator after one draw
AfterDraw(r) == IF r.seeded THEN [r EXCEPT !.x = RngAdvance(r.x)] ELSE r

\* random.random() < bound, for bound = hundredths / 100
BelowHundredths(u, hundredths) == u * 100 < hundredths * Grain

\* random.randint(lo, hi) computed from the draw u; lo <= hi
RandInt(u, lo, hi) == lo + ((u * (hi - lo + 1)) \div Grain)

\* the values random.randint(lo, hi) may return on generator r; lo <= hi
RandIntSet(r, lo, hi) ==
  IF r.seeded THEN {RandInt(RngOutput(RngAdvance(r.x)), lo, hi)} ELSE lo..hi

\* random.sample(range(n), k) for n <= 21: k times, j = randbelow(len(pool)),
\* take pool[j] and move the last element of the pool to place j. The
\* outcomes are the pairs (sample, generator after the k draws).
RECURSIVE Samples(_, _, _)
Samples(r, pool, k) ==
  IF k = 0 THEN {[out |-> <<>>, r |-> r]}
  ELSE UNION {
         {[out |-> <<pool[j + 1]>> \o s.out, r |-> s.r] :
            s \in Samples(AfterDraw(r),
                          SubSeq([pool EXCEPT ![j + 1] = pool[Len(pool)]],
                                 1, Len(pool) - 1),
                          k - 1)} :
         j \in RandIntSet(r, 0, Len(pool) - 1)}

(***************************************************************************)
(* Shorthands for the arguments of the call.                               *)
(***************************************************************************)
agents_dag == create_agents_dag(input)

num_agents == NumAgents(input)

resources == input.resources

NoResult == [kind |-> "none", value |-> <<>>]

Returned(S) == [kind |-> "return", value |-> S]

Raised(e) == [kind |-> e, value |-> <<>>]

NoMove == [kind |-> "none"]

(***************************************************************************)
(* The calls the model makes.                                              *)
(***************************************************************************)
Seeds == {NoSeed} \cup SeedValues

\* cooling_rate as the decimal exponent c of 10^-c: 0.1 and 1e-200
CoolingRates == {1, 200}

Call(algo, in, mi, cm, cr, sd) ==
  [algo |-> algo, resources |-> in.resources, agent_tasks |-> in.agent_tasks,
   dependencies |-> in.dependencies, max_iter |-> mi, candidate_moves |-> cm,
   cooling |-> cr, seed |-> sd]

Inputs ==
  {Call("greedy_schedule", in, 1, 1, 1, NoSeed) : in \in Instances \cup {InstNine}}
  \cup
  {Call("local_search", c[1], c[2], c[3], 1, c[4]) :
     c \in Instances \X {1, MaxIter} \X {1, MaxCandidateMoves} \X Seeds}
  \cup
  {Call("simulated_annealing", c[1], c[2], c[3], c[4], c[5]) :
     c \in Instances \X {1, MaxIter} \X {1, MaxCandidateMoves} \X CoolingRates \X Seeds}

\* the locals of a call before it starts
Cleared ==
  /\ t = 0
  /\ available_capacity = 0
  /\ schedule = <<>>
  /\ ready = <<>>
  /\ remaining_indegree = <<>>
  /\ iteration = 0
  /\ best_schedule = <<>>
  /\ best_cost = Inf
  /\ current_schedule = <<>>
  /\ current_cost = Inf
  /\ no_improve_count = 0
  /\ temperature = 0
  /\ candidate_schedule = <<>>
  /\ move = NoMove
  /\ seed_cost = Inf
  /\ visited_min = Inf

Init ==
  /\ input \in Inputs
  /\ pc = "call"
  /\ rng = RandomSeed(NoSeed)
  /\ Cleared
  /\ result = NoResult
  /\ run = 1
  /\ first_result = NoResult

(***************************************************************************)
(* greedy_schedule                                                         *)
(***************************************************************************)
\* lines 20-33: the graphs, the empty schedule, ready and remaining_indegree
GreedyStart ==
  /\ pc = "call"
  /\ pc' = "greedy"
  /\ schedule' = [s \in 1..Len(resources) |-> <<>>]
  /\ remaining_indegree' =
       [k \in DOMAIN agents_dag |->
          [node \in agents_dag[k].nodes |-> InDegree(agents_dag[k], node)]]
  /\ ready' =
       [k \in DOMAIN agents_dag |->
          {node \in agents_dag[k].nodes : InDegree(agents_dag[k], node) = 0}]
  /\ t' = 0
  /\ available_capacity' = IF Len(resources) > 0 THEN resources[1] ELSE 0
  /\ UNCHANGED <<input, rng, driver_vars, result, run, first_result>>

\* lines 38-43 looking at the first agent only
CandidateTasksFirstAgent ==
  {c \in {<<0, task>> : task \in ready[0]} :
     agents_dag[c[1]].size[c[2]] <= available_capacity}

\* lines 38-43: the (agent, task) pairs that are ready and fit
CandidateTasks ==
  {c \in UNION {{<<k, task>> : task \in ready[k]} : k \in DOMAIN ready} :
     agents_dag[c[1]].size[c[2]] <= available_capacity}

\* line 25: set() starts with a table of 8 entries
SetTableSize == 8

\* line 40: "for task in ready[i]" walks the table of the set. An int hashes
\* to itself and is stored at entry hash mod table size when that entry is
\* free, so a is met before b when its entry comes first: ascending order for
\* ids below 8, but 8 (entry 0) before 1. No instance of the model has two
\* ids with the same entry in one ready set.
IterationBefore(a, b) ==
  \/ a % SetTableSize < b % SetTableSize
  \/ (a % SetTableSize = b % SetTableSize /\ a < b)

\* lines 39-43: candidate_tasks is built agent by agent and, within an agent,
\* in the iteration order of ready[i]
CandidateBefore(c, o) ==
  c[1] < o[1] \/ (c[1] = o[1] /\ IterationBefore(c[2], o[2]))

\* line 48 with reverse=False: the first of the smallest candidates
ChosenSmallest(cands) ==
  CHOOSE c \in cands :
    \A o \in cands :
       \/ agents_dag[o[1]].size[o[2]] > agents_dag[c[1]].size[c[2]]
       \/ /\ agents_dag[o[1]].size[o[2]] = agents_dag[c[1]].size[c[2]]
          /\ (c = o \/ CandidateBefore(c, o))

\* lines 48-49 taking the last of the largest candidates
ChosenLast(cands) ==
  CHOOSE c \in cands :
    \A o \in cands :
       \/ agents_dag[o[1]].size[o[2]] < agents_dag[c[1]].size[c[2]]
       \/ /\ agents_dag[o[1]].size[o[2]] = agents_dag[c[1]].size[c[2]]
          /\ (c = o \/ CandidateBefore(o, c))

\* lines 48-49: the sort by size is stable, so candidate_tasks[0] is the first
\* of the largest candidates
Chosen(cands) ==
  CHOOSE c \in cands :
    \A o \in cands :
       \/ agents_dag[o[1]].size[o[2]] < agents_dag[c[1]].size[c[2]]
       \/ /\ agents_dag[o[1]].size[o[2]] = agents_dag[c[1]].size[c[2]]
          /\ (c = o \/ CandidateBefore(c, o))

\* a ready node that add_edge created has no 'size'
ReadyWithoutSize ==
  \E k \in DOMAIN ready : \E task \in ready[k] : ~HasSize(agents_dag[k], task)

\* line 41 raises KeyError
GreedyKeyError ==
  /\ pc = "greedy"
  /\ t < Len(resources)
  /\ ReadyWithoutSize
  /\ pc' = "error"
  /\ result' = Raised("KeyError")
  /\ UNCHANGED <<input, rng, greedy_vars, driver_vars, run, first_result>>

\* lines 47-58: place the chosen task in slot t
GreedyPlace ==
  /\ pc = "greedy"
  /\ t < Len(resources)
  /\ ~ReadyWithoutSize
  /\ CandidateTasks # {}
  /\ LET c == Chosen(CandidateTasks)
         k == c[1]
         task == c[2]
         succs == Successors(agents_dag[k], task)
         indeg == [node \in DOMAIN remaining_indegree[k] |->
                     IF node \in succs THEN remaining_indegree[k][node] - 1
                     ELSE remaining_indegree[k][node]]
     IN /\ schedule' = SetSlot(schedule, t, Append(schedule[t + 1], c))
        /\ available_capacity' = available_capacity - agents_dag[k].size[task]
        /\ remaining_indegree' = [remaining_indegree EXCEPT ![k] = indeg]
        /\ ready' = [ready EXCEPT ![k] =
                       (@ \ {task}) \cup {node \in succs : indeg[node] = 0}]
  /\ UNCHANGED <<input, pc, rng, t, driver_vars, result, run, first_result>>

\* lines 44-45 and 35-36: nothing fits, go to the next slot
GreedyNextSlot ==
  /\ pc = "greedy"
  /\ t < Len(resources)
  /\ ~ReadyWithoutSize
  /\ CandidateTasks = {}
  /\ t' = t + 1
  /\ available_capacity' = IF t + 1 < Len(resources) THEN resources[t + 2] ELSE 0
  /\ UNCHANGED <<input, pc, rng, schedule, ready, remaining_indegree,
                 driver_vars, result, run, first_result>>

\* line 60, called directly
GreedyReturn ==
  /\ pc = "greedy"
  /\ t = Len(resources)
  /\ input.algo = "greedy_schedule"
  /\ pc' = "done"
  /\ result' = Returned(schedule)
  /\ UNCHANGED <<input, rng, greedy_vars, driver_vars, run, first_result>>

(***************************************************************************)
(* The drivers: local_search and simulated_annealing.                      *)
(***************************************************************************)
IsLocalSearch == input.algo = "local_search"

IsAnnealing == input.algo = "simulated_annealing"

\* lines 130-138: the greedy seed becomes best_schedule; random.seed(seed)
LocalSearchInit ==
  /\ pc = "greedy"
  /\ t = Len(resources)
  /\ IsLocalSearch
  /\ pc' = "loop"
  /\ best_schedule' = schedule
  /\ best_cost' = evaluate_max_agent_cost(schedule, num_agents)
  /\ no_improve_count' = 0
  /\ rng' = RandomSeed(input.seed)
  /\ seed_cost' = evaluate_max_agent_cost(schedule, num_agents)
  /\ visited_min' = evaluate_max_agent_cost(schedule, num_agents)
  /\ UNCHANGED <<input, greedy_vars, iteration, current_schedule, current_cost,
                 temperature, candidate_schedule, move, result, run, first_result>>

\* lines 263-275: the greedy seed is current_schedule, a copy of it is
\* best_schedule; T = initial_temperature = 1.0; random.seed(seed)
AnnealingInit ==
  /\ pc = "greedy"
  /\ t = Len(resources)
  /\ IsAnnealing
  /\ pc' = "loop"
  /\ current_schedule' = schedule
  /\ best_schedule' = schedule
  /\ best_cost' = evaluate_max_agent_cost(schedule, num_agents)
  /\ current_cost' = evaluate_max_agent_cost(schedule, num_agents)
  /\ no_improve_count' = 0
  /\ temperature' = 0
  /\ rng' = RandomSeed(input.seed)
  /\ seed_cost' = evaluate_max_agent_cost(schedule, num_agents)
  /\ visited_min' = evaluate_max_agent_cost(schedule, num_agents)
  /\ UNCHANGED <<input, greedy_vars, iteration, candidate_schedule, move,
                 result, run, first_result>>

\* the schedule an iteration copies: best_schedule (line 142) or
\* current_schedule (line 279)
Base == IF IsLocalSearch THEN best_schedule ELSE current_schedule

\* for _ in range(max_iter): one more iteration starts
InLoop == pc = "loop" /\ iteration < input.max_iter

\* `continue`: the iteration ends without a candidate (begun = 1 when the
\* iteration started in this very step)
Skip(r, begun) ==
  /\ pc' = "loop"
  /\ rng' = r
  /\ iteration' = iteration + begun
  /\ candidate_schedule' = <<>>
  /\ move' = NoMove
  /\ UNCHANGED <<input, greedy_vars, best_schedule, best_cost, current_schedule,
                 current_cost, no_improve_count, temperature, result, run,
                 first_result, seed_cost, visited_min>>

\* a copy made by list(...) or by plain assignment: every row of the candidate
\* is a row of the schedule it was taken from
CandidateSharesRowsShallow == TRUE

\* lines 142 and 279: [row[:] for row in ...] makes a new list for every slot,
\* so the candidate shares no row with the schedule it was copied from
CandidateSharesRows == FALSE

\* the moves change rows of the candidate in place (pop, insert, item
\* assignment); a row shared with the copied schedule would change there too
WrittenThrough(kept, cand, isBase) ==
  IF CandidateSharesRows /\ isBase THEN cand ELSE kept

\* the move built candidate cand; the feasibility check comes next
Propose(r, cand, m, begun) ==
  /\ pc' = "check"
  /\ rng' = r
  /\ iteration' = iteration + begun
  /\ candidate_schedule' = cand
  /\ move' = m
  /\ best_schedule' = WrittenThrough(best_schedule, cand, IsLocalSearch)
  /\ current_schedule' = WrittenThrough(current_schedule, cand, IsAnnealing)
  /\ UNCHANGED <<input, greedy_vars, best_cost,
                 current_cost, no_improve_count, temperature, result, run,
                 first_result, seed_cost, visited_min>>

\* move_choice of the three branches (lines 147, 164, 176)
IsSwapChoice(u) == BelowHundredths(u, 33)

IsRelocateChoice(u) == ~BelowHundredths(u, 33) /\ BelowHundredths(u, 66)

IsMultiChoice(u) == ~BelowHundredths(u, 66)

\* the first randint of each branch (lines 149, 166, 178): randint(lo, hi)
\* raises ValueError when hi < lo
FirstRandintEmpty(u) ==
  IF IsRelocateChoice(u) THEN Len(Base) - 1 < 1 ELSE Len(Base) - 1 < 0

\* lines 149, 166, 178: "empty range for randrange()"
MoveValueError ==
  /\ InLoop
  /\ \E u \in Draws(rng) :
       /\ FirstRandintEmpty(u)
       /\ rng' = AfterDraw(rng)
  /\ pc' = "error"
  /\ result' = Raised("ValueError")
  /\ iteration' = iteration + 1
  /\ UNCHANGED <<input, greedy_vars, best_schedule, best_cost, current_schedule,
                 current_cost, no_improve_count, temperature, candidate_schedule,
                 move, run,
                 first_result, seed_cost, visited_min>>

\* lines 146-161: one-task swap
SwapMove ==
  /\ InLoop
  /\ \E u \in Draws(rng) :
       /\ IsSwapChoice(u)
       /\ ~FirstRandintEmpty(u)
       /\ LET r1 == AfterDraw(rng) IN
          \E t1 \in RandIntSet(r1, 0, Len(Base) - 1) :
          LET r2 == AfterDraw(r1) IN
          \E t2 \in RandIntSet(r2, 0, Len(Base) - 1) :
          LET r3 == AfterDraw(r2) IN
          IF t1 = t2 \/ Base[t1 + 1] = <<>> \/ Base[t2 + 1] = <<>>
          THEN Skip(r3, 1)
          ELSE \E idx1 \in RandIntSet(r3, 0, Len(Base[t1 + 1]) - 1) :
               LET r4 == AfterDraw(r3) IN
               \E idx2 \in RandIntSet(r4, 0, Len(Base[t2 + 1]) - 1) :
               LET a == Base[t1 + 1][idx1 + 1]
                   b == Base[t2 + 1][idx2 + 1]
               IN Propose(AfterDraw(r4),
                          [Base EXCEPT ![t1 + 1][idx1 + 1] = b,
                                       ![t2 + 1][idx2 + 1] = a],
                          [kind |-> "swap", t1 |-> t1, t2 |-> t2,
                           idx1 |-> idx1, idx2 |-> idx2], 1)

\* lines 163-173: move one task to an earlier slot
\* line 171 drawing from all slots
RelocateTargetsAnySlot(r, t_from) == RandIntSet(r, 0, Len(Base) - 1)

\* line 171: t_to = random.randint(0, t_from-1)
RelocateTargets(r, t_from) == RandIntSet(r, 0, t_from - 1)

RelocateMove ==
  /\ InLoop
  /\ \E u \in Draws(rng) :
       /\ IsRelocateChoice(u)
       /\ ~FirstRandintEmpty(u)
       /\ LET r1 == AfterDraw(rng) IN
          \E t_from \in RandIntSet(r1, 1, Len(Base) - 1) :
          LET r2 == AfterDraw(r1) IN
          IF Base[t_from + 1] = <<>>
          THEN Skip(r2, 1)
          ELSE \E idx \in RandIntSet(r2, 0, Len(Base[t_from + 1]) - 1) :
               LET r3 == AfterDraw(r2)
                   task == Base[t_from + 1][idx + 1]
                   popped == SetSlot(Base, t_from, Pop(Base[t_from + 1], idx))
               IN
               \E t_to \in RelocateTargets(r3, t_from) :
               LET r4 == AfterDraw(r3) IN
               \E insert_idx \in RandIntSet(r4, 0, Len(popped[t_to + 1])) :
               Propose(AfterDraw(r4),
                       SetSlot(popped, t_to, Insert(popped[t_to + 1], insert_idx, task)),
                       [kind |-> "relocate", t_from |-> t_from, idx |-> idx,
                        t_to |-> t_to, insert_idx |-> insert_idx], 1)

\* the tries of the group search (line 196)
MaxTries == 50

\* the indices of a set, largest first: sorted(found_group, reverse=True)
RECURSIVE SortedDesc(_)
SortedDesc(g) ==
  IF g = {} THEN <<>>
  ELSE LET m == CHOOSE x \in g : \A y \in g : y <= x
       IN <<m>> \o SortedDesc(g \ {m})

\* line 212: the entries of the group, largest index first
GroupTasks(row, g) == [j \in 1..Len(SortedDesc(g)) |-> row[SortedDesc(g)[j] + 1]]

\* lines 200-203: total_size of the entries of row at the 0-based indices g
\* lines 200-203 with total_size starting at -1
GroupTotalShort(row, g) == RowTotal(GroupTasks(row, g), agents_dag) - 1

GroupTotal(row, g) == RowTotal(GroupTasks(row, g), agents_dag)

\* lines 198-199: one try, group_size = randint(2, len) then
\* sample(range(len), group_size); the outcomes are (indices, generator after)
GroupTry(r, row) ==
  UNION {
    {[group |-> {smp.out[j] : j \in 1..Len(smp.out)}, r |-> smp.r] :
       smp \in Samples(AfterDraw(r), [j \in 1..Len(row) |-> j - 1], group_size)} :
    group_size \in RandIntSet(r, 2, Len(row))}

\* lines 213-214: pop the indices, largest first
RECURSIVE PopAll(_, _)
PopAll(row, desc) ==
  IF desc = <<>> THEN row ELSE PopAll(Pop(row, Head(desc)), Tail(desc))

\* lines 217-218 with the index advancing after every insertion
RECURSIVE InsertAllAdvancing(_, _, _)
InsertAllAdvancing(row, idx, tasks) ==
  IF tasks = <<>> THEN row
  ELSE InsertAllAdvancing(Insert(row, idx, Head(tasks)), idx + 1, Tail(tasks))

\* lines 217-218: insert every task at the same index, in the order given
RECURSIVE InsertAll(_, _, _)
InsertAll(row, idx, tasks) ==
  IF tasks = <<>> THEN row
  ELSE InsertAll(Insert(row, idx, Head(tasks)), idx, Tail(tasks))

\* lines 187-188: the other slots holding at least 2 entries, ascending
RECURSIVE ValidSlotsFrom(_, _, _)
ValidSlotsFrom(S, t_from, s) ==
  IF s >= Len(S) THEN <<>>
  ELSE (IF s # t_from /\ Len(S[s + 1]) >= 2 THEN <<s>> ELSE <<>>)
       \o ValidSlotsFrom(S, t_from, s + 1)

ValidSlots(S, t_from) == ValidSlotsFrom(S, t_from, 0)

\* lines 175-195: the single task (t_from, idx_from) and the slot t_to of the
\* group are drawn; the search for the group starts
MultiSwapBegin ==
  /\ InLoop
  /\ \E u \in Draws(rng) :
       /\ IsMultiChoice(u)
       /\ ~FirstRandintEmpty(u)
       /\ LET r1 == AfterDraw(rng) IN
          \E t_from \in RandIntSet(r1, 0, Len(Base) - 1) :
          LET r2 == AfterDraw(r1) IN
          IF Base[t_from + 1] = <<>>
          THEN Skip(r2, 1)
          ELSE \E idx_from \in RandIntSet(r2, 0, Len(Base[t_from + 1]) - 1) :
               LET r3 == AfterDraw(r2)
                   valid_slots == ValidSlots(Base, t_from)
               IN
               IF valid_slots = <<>>
               THEN Skip(r3, 1)
               ELSE \E c \in RandIntSet(r3, 0, Len(valid_slots) - 1) :
                    /\ pc' = "group"
                    /\ rng' = AfterDraw(r3)
                    /\ iteration' = iteration + 1
                    /\ candidate_schedule' = Base
                    /\ move' = [kind |-> "search", t_from |-> t_from,
                                idx_from |-> idx_from,
                                t_to |-> valid_slots[c + 1], tries |-> 0]
                    /\ UNCHANGED <<input, greedy_vars, best_schedule, best_cost,
                                   current_schedule, current_cost,
                                   no_improve_count, temperature, result, run,
                                   first_result, seed_cost, visited_min>>

\* task_from and size_from of the search in progress (lines 182-184)
task_from == candidate_schedule[move.t_from + 1][move.idx_from + 1]

size_from == agents_dag[task_from[1]].size[task_from[2]]

\* tasks_in_t_to (line 192)
tasks_in_t_to == candidate_schedule[move.t_to + 1]

\* lines 196-206: one try of the group search
Searching == pc = "group" /\ move.tries < MaxTries

\* lines 198-204: the total of the sampled group is not size_from
GroupTryMiss ==
  /\ Searching
  /\ \E o \in GroupTry(rng, tasks_in_t_to) :
       /\ GroupTotal(tasks_in_t_to, o.group) # size_from
       /\ rng' = o.r
  /\ move' = [move EXCEPT !.tries = @ + 1]
  /\ UNCHANGED <<input, pc, greedy_vars, iteration, best_schedule, best_cost,
                 current_schedule, current_cost, no_improve_count, temperature,
                 candidate_schedule, result, run, first_result, seed_cost,
                 visited_min>>

\* lines 204-221: the group matches; the task and the group change places
MultiSwapApply ==
  /\ Searching
  /\ \E o \in GroupTry(rng, tasks_in_t_to) :
       /\ GroupTotal(tasks_in_t_to, o.group) = size_from
       /\ LET desc == SortedDesc(o.group)
              group_tasks == GroupTasks(tasks_in_t_to, o.group)
              to_popped == PopAll(tasks_in_t_to, desc)
              from_new == InsertAll(Pop(candidate_schedule[move.t_from + 1],
                                        move.idx_from),
                                    move.idx_from, group_tasks)
          IN \E insert_idx \in RandIntSet(o.r, 0, Len(to_popped)) :
             Propose(AfterDraw(o.r),
                     SetSlot(SetSlot(candidate_schedule, move.t_from, from_new),
                             move.t_to, Insert(to_popped, insert_idx, task_from)),
                     [kind |-> "multi", t_from |-> move.t_from,
                      idx_from |-> move.idx_from, t_to |-> move.t_to,
                      found_group |-> o.group, insert_idx |-> insert_idx], 0)

\* lines 207-208: no try found a group
GroupNotFound ==
  /\ pc = "group"
  /\ move.tries >= MaxTries
  /\ Skip(rng, 0)

(***************************************************************************)
(* After the move: feasibility, evaluation, acceptance.                    *)
(***************************************************************************)
\* line 365 left out: the cost on record is that of the copied schedule
candidate_cost_stale == IF IsLocalSearch THEN best_cost ELSE current_cost

candidate_cost == evaluate_max_agent_cost(candidate_schedule, num_agents)

Feasible == is_feasible(candidate_schedule, agents_dag, resources)

\* lines 239-240 with > in place of >=
AfterStagnationTestStrict(count) ==
  IF count > input.candidate_moves THEN "break" ELSE "loop"

\* lines 239-240 and 387-388: pc after the stagnation test
AfterStagnationTest(count) ==
  IF count >= input.candidate_moves THEN "break" ELSE "loop"

\* lines 225-226 and 362-363: the candidate is dropped
Infeasible ==
  /\ pc = "check"
  /\ ~Feasible
  /\ pc' = "loop"
  /\ candidate_schedule' = <<>>
  /\ move' = NoMove
  /\ UNCHANGED <<input, rng, greedy_vars, iteration, best_schedule, best_cost,
                 current_schedule, current_cost, no_improve_count, temperature,
                 result, run, first_result, seed_cost, visited_min>>

\* line 231 with <= in place of <
ImprovesOrEqual(c, best) == CostLeq(c, best)

\* line 231: the comparison that lets a candidate replace best_schedule
Improves(c, best) == CostLess(c, best)

\* lines 231-234
LocalSearchAccept ==
  /\ pc = "check"
  /\ IsLocalSearch
  /\ Feasible
  /\ Improves(candidate_cost, best_cost)
  /\ best_schedule' = candidate_schedule
  /\ best_cost' = candidate_cost
  /\ no_improve_count' = 0
  /\ pc' = AfterStagnationTest(0)
  /\ candidate_schedule' = <<>>
  /\ move' = NoMove
  /\ visited_min' = candidate_cost
  /\ UNCHANGED <<input, rng, greedy_vars, iteration, current_schedule,
                 current_cost, temperature, result, run, first_result, seed_cost>>

\* lines 235-236
LocalSearchReject ==
  /\ pc = "check"
  /\ IsLocalSearch
  /\ Feasible
  /\ ~Improves(candidate_cost, best_cost)
  /\ no_improve_count' = no_improve_count + 1
  /\ pc' = AfterStagnationTest(no_improve_count + 1)
  /\ candidate_schedule' = <<>>
  /\ move' = NoMove
  /\ UNCHANGED <<input, rng, greedy_vars, iteration, best_schedule, best_cost,
                 current_schedule, current_cost, temperature, result, run,
                 first_result, seed_cost, visited_min>>

(***************************************************************************)
(* Simulated annealing: T and the Metropolis test of line 369.             *)
(* T is 10^-temperature; a double below 1e-323 is 0.0.                     *)
(***************************************************************************)
ZeroExponent == 324

TemperatureIsZero == temperature >= ZeroExponent

\* line 384 executed twice
CooledTwice == Min(temperature + 2 * input.cooling, ZeroExponent)

\* line 384: T *= cooling_rate
Cooled == Min(temperature + input.cooling, ZeroExponent)

\* delta = candidate_cost - current_cost as numerator / denominator;
\* 0/0 is nan (inf - inf) and n/0 with n > 0 is +inf
DeltaNum(c, cur) == c.n * cur.d - cur.n * c.d

DeltaDen(c, cur) == c.d * cur.d

\* line 369, left operand: delta < 0
DeltaNegative(c, cur) == CostLess(c, cur)

\* math.exp(-delta / T) = 0.0: delta is nan or inf, or delta / T exceeds 745
ThresholdIsZero(c, cur, e) ==
  \/ DeltaDen(c, cur) = 0
  \/ DeltaNum(c, cur) * Pow10(Min(e, 5)) > 745 * DeltaDen(c, cur)

\* math.exp(-delta / T) = 1.0: delta = 0
ThresholdIsOne(c, cur) == DeltaDen(c, cur) # 0 /\ DeltaNum(c, cur) = 0

\* 1000 * ln(Grain / u), rounded down, for the draws u = 1 .. 5 of Grain = 6
LnMilli(u) ==
  CASE u = 1 -> 1791
    [] u = 2 -> 1098
    [] u = 3 -> 693
    [] u = 4 -> 405
    [] OTHER -> 182

\* u / Grain < math.exp(-delta / T), i.e. delta / T < ln(Grain / u)
BelowThreshold(u, c, cur, e) ==
  IF ThresholdIsZero(c, cur, e) THEN FALSE
  ELSE IF ThresholdIsOne(c, cur) THEN TRUE
  ELSE IF u = 0 THEN TRUE
  ELSE DeltaNum(c, cur) * Pow10(Min(e, 4)) * 1000 <= LnMilli(u) * DeltaDen(c, cur)

\* the outcomes of random.random() < math.exp(-delta / T) on generator r:
\* a draw is in [0, 1), so it is below 1.0 and never below 0.0
MetropolisOutcomes(r, c, cur, e) ==
  IF r.seeded THEN {BelowThreshold(RngOutput(RngAdvance(r.x)), c, cur, e)}
  ELSE {b \in BOOLEAN : /\ b => ~ThresholdIsZero(c, cur, e)
                        /\ ~b => ~ThresholdIsOne(c, cur)}

\* line 374 with <= in place of <
ImprovesBestOrEqual(c, best) == CostLeq(c, best)

\* line 374 with the comparison turned around
ImprovesBestFlipped(c, best) == CostLess(best, c)

\* line 374: the comparison that lets a candidate replace best_schedule
ImprovesBest(c, best) == CostLess(c, best)

\* lines 369-379 and 384-388: the candidate becomes current_schedule
AnnealingAccept ==
  /\ pc = "check"
  /\ IsAnnealing
  /\ Feasible
  /\ \/ /\ DeltaNegative(candidate_cost, current_cost)
        /\ rng' = rng
     \/ /\ ~DeltaNegative(candidate_cost, current_cost)
        /\ ~TemperatureIsZero
        /\ TRUE \in MetropolisOutcomes(rng, candidate_cost, current_cost, temperature)
        /\ rng' = AfterDraw(rng)
  /\ current_schedule' = candidate_schedule
  /\ current_cost' = candidate_cost
  /\ IF ImprovesBest(candidate_cost, best_cost)
     THEN /\ best_schedule' = candidate_schedule
          /\ best_cost' = candidate_cost
          /\ no_improve_count' = 0
     ELSE /\ no_improve_count' = no_improve_count + 1
          /\ UNCHANGED <<best_schedule, best_cost>>
  /\ temperature' = Cooled
  /\ pc' = AfterStagnationTest(no_improve_count')
  /\ candidate_schedule' = <<>>
  /\ move' = NoMove
  /\ visited_min' = IF CostLess(candidate_cost, visited_min)
                    THEN candidate_cost ELSE visited_min
  /\ UNCHANGED <<input, greedy_vars, iteration, result, run, first_result,
                 seed_cost>>

\* lines 369, 380-381 and 384-388: the candidate is rejected
AnnealingReject ==
  /\ pc = "check"
  /\ IsAnnealing
  /\ Feasible
  /\ ~DeltaNegative(candidate_cost, current_cost)
  /\ ~TemperatureIsZero
  /\ FALSE \in MetropolisOutcomes(rng, candidate_cost, current_cost, temperature)
  /\ rng' = AfterDraw(rng)
  /\ no_improve_count' = no_improve_count + 1
  /\ temperature' = Cooled
  /\ pc' = AfterStagnationTest(no_improve_count + 1)
  /\ candidate_schedule' = <<>>
  /\ move' = NoMove
  /\ UNCHANGED <<input, greedy_vars, iteration, best_schedule, best_cost,
                 current_schedule, current_cost, result, run, first_result,
                 seed_cost, visited_min>>

\* line 369: -delta / T with T = 0.0 raises ZeroDivisionError
AnnealingZeroDivision ==
  /\ pc = "check"
  /\ IsAnnealing
  /\ Feasible
  /\ ~DeltaNegative(candidate_cost, current_cost)
  /\ TemperatureIsZero
  /\ pc' = "error"
  /\ result' = Raised("ZeroDivisionError")
  /\ UNCHANGED <<input, rng, greedy_vars, driver_vars, run, first_result>>

\* lines 242 and 390: the loop is exhausted or was left by break
DriverReturn ==
  /\ \/ pc = "break"
     \/ pc = "loop" /\ iteration >= input.max_iter
  /\ pc' = "done"
  /\ result' = Returned(best_schedule)
  /\ UNCHANGED <<input, rng, greedy_vars, driver_vars, run, first_result>>

(***************************************************************************)
(* The caller repeats the call with the same arguments (test2.py calls the *)
(* drivers again and again with seed=515125). The generator of the random  *)
(* module outlives the call.                                               *)
(***************************************************************************)
Repeat ==
  /\ pc \in {"done", "error"}
  /\ input.seed # NoSeed
  /\ run = 1
  /\ run' = 2
  /\ first_result' = result
  /\ result' = NoResult
  /\ pc' = "call"
  /\ t' = 0
  /\ available_capacity' = 0
  /\ schedule' = <<>>
  /\ ready' = <<>>
  /\ remaining_indegree' = <<>>
  /\ iteration' = 0
  /\ best_schedule' = <<>>
  /\ best_cost' = Inf
  /\ current_schedule' = <<>>
  /\ current_cost' = Inf
  /\ no_improve_count' = 0
  /\ temperature' = 0
  /\ candidate_schedule' = <<>>
  /\ move' = NoMove
  /\ seed_cost' = Inf
  /\ visited_min' = Inf
  /\ UNCHANGED <<input, rng>>

Next ==
  \/ GreedyStart
  \/ GreedyKeyError
  \/ GreedyPlace
  \/ GreedyNextSlot
  \/ GreedyReturn
  \/ LocalSearchInit
  \/ AnnealingInit
  \/ MoveValueError
  \/ SwapMove
  \/ RelocateMove
  \/ MultiSwapBegin
  \/ GroupTryMiss
  \/ MultiSwapApply
  \/ GroupNotFound
  \/ Infeasible
  \/ LocalSearchAccept
  \/ LocalSearchReject
  \/ AnnealingAccept
  \/ AnnealingReject
  \/ AnnealingZeroDivision
  \/ DriverReturn
  \/ Repeat

Spec == Init /\ [][Next]_vars

(***************************************************************************)
(* Two driver calls in one process. app.py declares its endpoints with     *)
(* def, so every request is served on a worker thread and two driver calls *)
(* may run at the same time. Both use the generator of the random module:  *)
(* the other call seeds it when it starts (lines 138, 275) and draws from  *)
(* it in every iteration (lines 144, 281). The first call of a seeded pair *)
(* runs alone; its repetition runs beside another seeded call, whose steps *)
(* are taken between two iterations of this one.                           *)
(***************************************************************************)
BesideOtherCall ==
  /\ IsLocalSearch \/ IsAnnealing
  /\ input.seed # NoSeed
  /\ run = 2
  /\ pc = "loop"

\* lines 138, 275 in the other call: random.seed(seed)
OtherCallSeeds ==
  /\ BesideOtherCall
  /\ \E sd \in SeedValues : rng' = RandomSeed(sd)
  /\ UNCHANGED <<input, pc, greedy_vars, driver_vars, result, run, first_result>>

\* lines 144, 281 in the other call: random.random()
OtherCallDraws ==
  /\ BesideOtherCall
  /\ rng' = AfterDraw(rng)
  /\ UNCHANGED <<input, pc, greedy_vars, driver_vars, result, run, first_result>>

NextShared ==
  \/ Next
  \/ OtherCallSeeds
  \/ OtherCallDraws

SpecShared == Init /\ [][NextShared]_vars

(***************************************************************************)
(* is_feasible and evaluate_max_agent_cost called on their own, with any   *)
(* schedule over the tasks of an instance: slots of up to MaxRow entries,  *)
(* tasks missing or repeated, in any order. evaluate_max_agent_cost is     *)
(* called with the number of agents of the instance or one more.           *)
(***************************************************************************)
RowsOver(P) == UNION {[1..n -> P] : n \in 0..MaxRow}

SchedulesOver(in) == [1..Len(in.resources) -> RowsOver(AllTasks(in))]

FunctionInstances ==
  {InstS1, InstS2, InstS3, InstS6, InstTight, InstMulti,
   InstSelfLoop, InstCycle, InstOutOfRange}

FunctionCall(algo, in, S, K) ==
  [algo |-> algo, resources |-> in.resources, agent_tasks |-> in.agent_tasks,
   dependencies |-> in.dependencies, max_iter |-> 0, candidate_moves |-> 0,
   cooling |-> 1, seed |-> NoSeed, schedule |-> S, num_agents |-> K]

FunctionInputs ==
  UNION {
    {FunctionCall("is_feasible", in, S, NumAgents(in)) : S \in SchedulesOver(in)}
    \cup
    {FunctionCall("evaluate_max_agent_cost", in, c[1], c[2]) :
       c \in SchedulesOver(in) \X {NumAgents(in), NumAgents(in) + 1}} :
    in \in FunctionInstances}

InitFunctions ==
  /\ input \in FunctionInputs
  /\ pc = "call"
  /\ rng = RandomSeed(NoSeed)
  /\ Cleared
  /\ result = NoResult
  /\ run = 1
  /\ first_result = NoResult

\* lines 81-117
IsFeasibleCall ==
  /\ pc = "call"
  /\ input.algo = "is_feasible"
  /\ pc' = "done"
  /\ result' = Returned(is_feasible(input.schedule, agents_dag, resources))
  /\ UNCHANGED <<input, rng, greedy_vars, driver_vars, run, first_result>>

\* lines 62-79
EvaluateCall ==
  /\ pc = "call"
  /\ input.algo = "evaluate_max_agent_cost"
  /\ pc' = "done"
  /\ result' = Returned(evaluate_max_agent_cost(input.schedule, input.num_agents))
  /\ UNCHANGED <<input, rng, greedy_vars, driver_vars, run, first_result>>

NextFunctions ==
  \/ IsFeasibleCall
  \/ EvaluateCall

SpecFunctions == InitFunctions /\ [][NextFunctions]_vars

(***************************************************************************)
(* What the claims speak about, stated on the input alone.                 *)
(***************************************************************************)
\* the size the input gives task p = (k, i)
TaskSizeOf(p) == input.agent_tasks[p[1] + 1][p[2] + 1]

RECURSIVE LoadOf(_)
LoadOf(row) == IF row = <<>> THEN 0 ELSE TaskSizeOf(Head(row)) + LoadOf(Tail(row))

\* the (slot, index) positions of p in S
PositionsOf(S, p) ==
  UNION {{<<s, j>> : j \in {i \in 1..Len(S[s]) : S[s][i] = p}} : s \in 1..Len(S)}

\* the edges u -> v the input declares for agent k
EdgesOf(k) ==
  {e \in (0..MaxNode) \X (0..(Len(input.dependencies[k + 1]) - 1)) :
     e[1] \in input.dependencies[k + 1][e[2] + 1]}

\* the pairs joined by a path of at most n + 1 edges of E
RECURSIVE Closure(_, _)
Closure(E, n) ==
  IF n = 0 THEN E
  ELSE LET P == Closure(E, n - 1)
       IN P \cup {<<x[1][1], x[2][2]>> : x \in {y \in P \X E : y[1][2] = y[2][1]}}

\* a self-loop or a longer cycle
HasCycle(E) == \E e \in Closure(E, Cardinality(E)) : e[1] = e[2]

\* an index out of range, a self-loop or a cycle in some agent's dependencies
MalformedInput ==
  \E k \in 0..(NumAgents(input) - 1) :
    \/ \E e \in EdgesOf(k) : e[1] >= NumTasks(input, k)
    \/ HasCycle(EdgesOf(k))

IsDriverCall == IsLocalSearch \/ IsAnnealing

\* the schedules a call has produced so far
ProducedSchedules == {schedule, best_schedule, current_schedule, result.value}

\* p stands before q in (slot, index) order
Before(p, q) == p[1] < q[1] \/ (p[1] = q[1] /\ p[2] < q[2])

InSearch == pc \in {"loop", "group", "check", "break"}

ReturnedCost == evaluate_max_agent_cost(result.value, num_agents)

(***************************************************************************)
(* C1. Capacity: in every schedule that greedy_schedule, local_search or   *)
(* simulated_annealing builds, keeps or returns, the sizes of the tasks of *)
(* a slot add up to at most the capacity of the slot.                      *)
(***************************************************************************)
C1_Capacity ==
  \A S \in ProducedSchedules :
    \A s \in 1..Len(S) : LoadOf(S[s]) <= input.resources[s]

\* a driver returned a schedule that is not its greedy seed
C1_Witness ==
  /\ IsDriverCall
  /\ pc = "done"
  /\ result.kind = "return"
  /\ result.value # schedule

(***************************************************************************)
(* C2. Precedence: in every returned schedule, for every agent k and every *)
(* dependency edge u -> v of k, u is placed strictly before v in (slot,    *)
(* index) order. Stated for well-formed input.                             *)
(***************************************************************************)
C2_Precedence ==
  (~MalformedInput /\ result.kind = "return") =>
    \A k \in 0..(NumAgents(input) - 1) : \A e \in EdgesOf(k) :
      /\ PositionsOf(result.value, <<k, e[1]>>) # {}
      /\ PositionsOf(result.value, <<k, e[2]>>) # {}
      /\ \A pu \in PositionsOf(result.value, <<k, e[1]>>) :
           \A pv \in PositionsOf(result.value, <<k, e[2]>>) : Before(pu, pv)

(***************************************************************************)
(* C3. Coverage: every returned schedule holds each task (k, i) of the     *)
(* input exactly once. Stated for well-formed input.                       *)
(***************************************************************************)
C3_Coverage ==
  (~MalformedInput /\ result.kind = "return") =>
    \A p \in AllTasks(input) : Cardinality(PositionsOf(result.value, p)) = 1

(***************************************************************************)
(* C4. Monotone improvement of local search: the returned cost is at most  *)
(* the cost of the greedy seed; during the search best_cost never          *)
(* increases, and it strictly decreases whenever best_schedule is replaced.*)
(***************************************************************************)
C4_MonotoneImprovement ==
  /\ []((IsLocalSearch /\ pc = "done") => CostLeq(ReturnedCost, seed_cost))
  /\ [][(IsLocalSearch /\ InSearch /\ pc' # "call") =>
          /\ CostLeq(best_cost', best_cost)
          /\ (best_schedule' # best_schedule => CostLess(best_cost', best_cost))]_vars

\* local_search returned a schedule strictly cheaper than the greedy seed
C4_Witness ==
  /\ IsLocalSearch
  /\ pc = "done"
  /\ CostLess(ReturnedCost, seed_cost)

(***************************************************************************)
(* C5. Annealing best-vs-current: best_cost is the least current_cost seen *)
(* since the start (seed included), the returned schedule has that cost,   *)
(* and it is at most the cost of the greedy seed.                          *)
(***************************************************************************)
C5_BestIsMinVisited ==
  /\ (IsAnnealing /\ InSearch) => CostEq(best_cost, visited_min)
  /\ (IsAnnealing /\ pc = "done") =>
       /\ CostEq(ReturnedCost, visited_min)
       /\ CostLeq(ReturnedCost, seed_cost)

\* simulated_annealing returned while its current schedule was worse than the
\* best one, which is better than the seed
C5_Witness ==
  /\ IsAnnealing
  /\ pc = "done"
  /\ CostLess(ReturnedCost, seed_cost)
  /\ CostLess(ReturnedCost, current_cost)

(***************************************************************************)
(* C6. Termination: a driver call on well-formed input runs at most        *)
(* max_iter iterations and at most MaxTries tries per group search, and    *)
(* ends by returning.                                                      *)
(***************************************************************************)
C6_Termination ==
  (~MalformedInput /\ IsDriverCall) =>
    /\ iteration <= input.max_iter
    /\ (pc = "group" => move.tries <= MaxTries)
    /\ pc # "error"

(***************************************************************************)
(* C7. No condition in the search is fatal: with at least one slot, a move *)
(* without a valid source or target slot is skipped, never raised.         *)
(***************************************************************************)
C7_NoFatalMove ==
  (IsDriverCall /\ Len(input.resources) >= 1) => result.kind # "ValueError"

(***************************************************************************)
(* C8. Infeasible placement is reported: when the greedy constructor has   *)
(* gone through all slots and left a task unplaced, the call does not      *)
(* return a schedule.                                                      *)
(***************************************************************************)
GreedyLeftTaskOut ==
  /\ pc \notin {"call", "greedy"}
  /\ \E p \in AllTasks(input) : PositionsOf(schedule, p) = {}

C8_InfeasibleReported ==
  (~MalformedInput /\ GreedyLeftTaskOut) => result.kind # "return"

(***************************************************************************)
(* C9. Malformed dependency input is rejected: with an out-of-range index, *)
(* a self-loop or a cycle in the dependencies, no schedule is returned.    *)
(***************************************************************************)
C9_MalformedRejected == MalformedInput => result.kind # "return"

(***************************************************************************)
(* C10. Determinism under seed: a seeded call repeated with the same       *)
(* arguments ends as the first one did, with the same schedule.            *)
(***************************************************************************)
C10_Determinism ==
  (input.seed # NoSeed /\ run = 2 /\ pc \in {"done", "error"}) =>
    result = first_result

\* the repetition of a seeded driver call returned a schedule that is not the
\* greedy seed
C10_Witness ==
  /\ IsDriverCall
  /\ input.seed # NoSeed
  /\ run = 2
  /\ pc = "done"
  /\ result.value # schedule

(***************************************************************************)
(* C11. Each driver call owns its pseudo-random stream: a seeded driver    *)
(* call that runs beside another call of the same process returns the      *)
(* schedule it returned when it ran alone with that seed.                  *)
(***************************************************************************)
C11_OwnStream ==
  (IsDriverCall /\ input.seed # NoSeed /\ run = 2 /\ pc = "done"
     /\ first_result.kind = "return") =>
    result.value = first_result.value

(***************************************************************************)
(* C12. Feasibility checker: is_feasible returns true exactly when every   *)
(* slot's load is within its capacity, no (agent, task) pair stands at two *)
(* places, and for every dependency edge u -> v both ends are present with *)
(* u before v. Coverage is not required.                                   *)
(***************************************************************************)
C12_FeasibleIff ==
  (input.algo = "is_feasible" /\ pc = "done") =>
    LET S == input.schedule IN
    result.value <=>
      /\ \A s \in 1..Len(S) : LoadOf(S[s]) <= input.resources[s]
      /\ \A p \in AllTasks(input) : Cardinality(PositionsOf(S, p)) <= 1
      /\ \A k \in 0..(NumAgents(input) - 1) : \A e \in EdgesOf(k) :
           /\ PositionsOf(S, <<k, e[1]>>) # {}
           /\ PositionsOf(S, <<k, e[2]>>) # {}
           /\ \A pu \in PositionsOf(S, <<k, e[1]>>) :
                \A pv \in PositionsOf(S, <<k, e[2]>>) : Before(pu, pv)

\* is_feasible accepted a schedule that lacks a task without incident edge
C12_Witness ==
  /\ input.algo = "is_feasible"
  /\ pc = "done"
  /\ result.value = TRUE
  /\ \E p \in AllTasks(input) :
       /\ PositionsOf(input.schedule, p) = {}
       /\ \A e \in EdgesOf(p[1]) : p[2] \notin {e[1], e[2]}
  /\ \E p \in AllTasks(input) : PositionsOf(input.schedule, p) # {}

(***************************************************************************)
(* C13. Evaluator consistency. SlotSum(S, k) is the sum of the 1-based     *)
(* slot numbers of the entries of agent k in S.                            *)
(***************************************************************************)
EntriesOf(S, k) ==
  UNION {{<<s, j>> : j \in {i \in 1..Len(S[s]) : S[s][i][1] = k}} : s \in 1..Len(S)}

RECURSIVE SumOfSlots(_)
SumOfSlots(E) ==
  IF E = {} THEN 0
  ELSE LET e == CHOOSE x \in E : TRUE IN e[1] + SumOfSlots(E \ {e})

SlotSum(S, k) == SumOfSlots(EntriesOf(S, k))

\* c is the greatest of the values A[k], k < K
IsMaxOf(c, A, K) ==
  /\ \E k \in 0..(K - 1) : CostEq(c, A[k])
  /\ \A k \in 0..(K - 1) : CostLeq(A[k], c)

\* N_k, the number of tasks the input gives agent k (none beyond the last agent)
TasksOfAgent(k) == IF k < NumAgents(input) THEN NumTasks(input, k) ELSE 0

IsS3 ==
  /\ input.resources = <<2, 2>>
  /\ input.agent_tasks = << <<1, 1>>, <<1, 1>> >>
  /\ input.dependencies = << <<{}, {}>>, <<{}, {}>> >>

\* C14 as stated: the schedule greedy_schedule builds for S3 has cost 1.5.
C14_GreedyS3Optimal ==
  (IsS3 /\ input.algo = "greedy_schedule" /\ pc = "done") =>
    CostEq(ReturnedCost, Frac(3, 2))

\* C14 amended: the schedule greedy_schedule builds for S3 puts both tasks of
\* agent 0 in slot 1 and both tasks of agent 1 in slot 2; its cost is 2.
C14_GreedyS3AgentByAgent ==
  (IsS3 /\ input.algo = "greedy_schedule" /\ pc = "done") =>
    /\ result.value = << << <<0, 0>>, <<0, 1>> >>, << <<1, 0>>, <<1, 1>> >> >>
    /\ CostEq(ReturnedCost, Frac(2, 1))

\* greedy_schedule returned a schedule for S3
C14_Witness ==
  /\ IsS3
  /\ input.algo = "greedy_schedule"
  /\ pc = "done"
  /\ result.kind = "return"
  /\ \A p \in AllTasks(input) : PositionsOf(result.value, p) # {}

(***************************************************************************)
(* C15. Greedy largest-first selection, stated on the steps that append a  *)
(* task to slot t.                                                         *)
(***************************************************************************)
IsPlaced(p) == PositionsOf(schedule, p) # {}

\* the tasks not yet placed whose predecessors are all placed
ReadyTasks ==
  {p \in AllTasks(input) :
     /\ ~IsPlaced(p)
     /\ \A e \in EdgesOf(p[1]) : e[2] = p[2] => IsPlaced(<<p[1], e[1]>>)}

\* the ready tasks that fit in what is left of slot t
FittingTasks ==
  {p \in ReadyTasks : TaskSizeOf(p) <= input.resources[t + 1] - LoadOf(schedule[t + 1])}

IsPlacementStep == pc = "greedy" /\ schedule' # schedule

Appended == schedule'[t + 1][Len(schedule'[t + 1])]

\* C15 as stated: the appended task is a ready task that fits, of the largest
\* size among those, and the smallest (agent, task) pair among those of that
\* size.
C15_LargestThenLexicographic ==
  [][IsPlacementStep =>
       /\ Appended \in FittingTasks
       /\ \A o \in FittingTasks :
            /\ TaskSizeOf(o) <= TaskSizeOf(Appended)
            /\ TaskSizeOf(o) = TaskSizeOf(Appended) =>
                 \/ Appended[1] < o[1]
                 \/ (Appended[1] = o[1] /\ Appended[2] <= o[2])]_vars

\* C15 amended: the appended task is a ready task that fits, of the largest
\* size among those, and among those of that size the first in the order
\* candidate_tasks is built in: the smallest agent, then the iteration order
\* of that agent's ready set, which is not always the smallest task index.
C15_LargestThenFirstListed ==
  [][IsPlacementStep =>
       /\ Appended \in FittingTasks
       /\ \A o \in FittingTasks :
            /\ TaskSizeOf(o) <= TaskSizeOf(Appended)
            /\ TaskSizeOf(o) = TaskSizeOf(Appended) =>
                 (Appended = o \/ CandidateBefore(Appended, o))]_vars

\* greedy_schedule placed task 8 ahead of task 1 of the same size
C15_Witness ==
  /\ input.algo = "greedy_schedule"
  /\ pc = "done"
  /\ Len(result.value) = 2
  /\ result.value[1] = << <<0, 8>>, <<0, 1>> >>

(***************************************************************************)
(* C16. Multi-swap insertion order. After a multi-swap has been applied    *)
(* the candidate awaits its feasibility check; Base is still the schedule  *)
(* the candidate was copied from.                                          *)
(***************************************************************************)
MultiSwapApplied == IsDriverCall /\ pc = "check" /\ move.kind = "multi"

\* the indices of the group in slot t_to, smallest first
GroupAscending ==
  LET desc == SortedDesc(move.found_group)
  IN [j \in 1..Len(desc) |-> desc[Len(desc) + 1 - j]]

\* the j-th entry of the group as it stands in slot t_from of the candidate
GroupEntryAfter(j) == candidate_schedule[move.t_from + 1][move.idx_from + j]

\* the entry of slot t_to that stood at 0-based index i before the move
EntryBefore(i) == Base[move.t_to + 1][i + 1]

\* C16 as stated: the group stands at consecutive positions from idx_from in
\* slot t_from, in the reverse of the order it had in slot t_to.
C16_GroupReversed ==
  MultiSwapApplied =>
    LET asc == GroupAscending
    IN \A j \in 1..Len(asc) : GroupEntryAfter(j) = EntryBefore(asc[Len(asc) + 1 - j])

\* C16 amended: the group stands at consecutive positions from idx_from in
\* slot t_from, in the same relative order it had in slot t_to.
C16_GroupOrderKept ==
  MultiSwapApplied =>
    LET asc == GroupAscending
    IN /\ Len(candidate_schedule[move.t_from + 1]) =
            Len(Base[move.t_from + 1]) - 1 + Len(asc)
       /\ \A j \in 1..Len(asc) : GroupEntryAfter(j) = EntryBefore(asc[j])

\* a multi-swap moved a group of two or more entries
C16_Witness ==
  /\ MultiSwapApplied
  /\ Cardinality(move.found_group) >= 2
  /\ candidate_schedule # Base

(***************************************************************************)
(* C17. Moves preserve the task multiset: a candidate holds every pair as  *)
(* often as the schedule it was copied from, and the best and the current  *)
(* schedule hold every pair as often as the greedy seed.                   *)
(***************************************************************************)
Occurrences(S, p) == Cardinality(PositionsOf(S, p))

RECURSIVE EntryCount(_)
EntryCount(S) == IF S = <<>> THEN 0 ELSE Len(Head(S)) + EntryCount(Tail(S))

SameMultiset(A, B) ==
  /\ EntryCount(A) = EntryCount(B)
  /\ \A p \in AllTasks(input) : Occurrences(A, p) = Occurrences(B, p)

C17_MultisetPreserved ==
  /\ (IsDriverCall /\ pc = "check") => SameMultiset(candidate_schedule, Base)
  /\ (IsDriverCall /\ (InSearch \/ pc = "done")) => SameMultiset(best_schedule, schedule)
  /\ (IsAnnealing /\ (InSearch \/ pc = "done")) => SameMultiset(current_schedule, schedule)
  /\ (IsDriverCall /\ pc = "done") => SameMultiset(result.value, schedule)

\* a relocation built a candidate from a schedule that is no longer the
\* greedy seed
C17_Witness ==
  /\ IsDriverCall
  /\ pc = "check"
  /\ move.kind = "relocate"
  /\ Base # schedule

(***************************************************************************)
(* C18. Cooling only after a successful feasibility check: an iteration of *)
(* simulated_annealing whose candidate passed is_feasible and was accepted *)
(* or rejected multiplies the temperature by cooling_rate once; a skipped  *)
(* move or an infeasible candidate leaves the temperature, the current and *)
(* the best schedule, their costs and no_improve_count as they are.        *)
(***************************************************************************)
KeptUnchanged ==
  UNCHANGED <<temperature, current_schedule, current_cost, best_schedule,
              best_cost, no_improve_count>>

C18_CoolingAfterFeasible ==
  [][IsAnnealing =>
       /\ (pc = "check" /\ Feasible /\ pc' \in {"loop", "break"}) =>
            temperature' = Min(temperature + input.cooling, ZeroExponent)
       /\ (pc = "check" /\ ~Feasible) => KeptUnchanged
       /\ (pc \in {"loop", "group"} /\ pc' \in {"loop", "group", "check"}) =>
            KeptUnchanged]_vars

\* the temperature has been lowered and an infeasible candidate is being
\* dropped
C18_Witness ==
  /\ IsAnnealing
  /\ pc = "check"
  /\ ~Feasible
  /\ temperature > 0
  /\ temperature < ZeroExponent

C20_AcceptanceAndStagnation ==
  /\ []((IsLocalSearch /\ pc = "break") => no_improve_count >= input.candidate_moves)
  /\ [][IsLocalSearch =>
          /\ (pc = "check" /\ Feasible /\ CostLess(candidate_cost, best_cost)) =>
               /\ best_schedule' = candidate_schedule
               /\ best_cost' = candidate_cost
               /\ no_improve_count' = 0
          /\ (pc = "check" /\ Feasible /\ ~CostLess(candidate_cost, best_cost)) =>
               /\ UNCHANGED <<best_schedule, best_cost>>
               /\ no_improve_count' = no_improve_count + 1
          /\ (pc = "check" /\ Feasible) =>
               pc' = IF no_improve_count' >= input.candidate_moves
                     THEN "break" ELSE "loop"
          /\ (pc = "check" /\ ~Feasible) =>
               (pc' = "loop" /\ UNCHANGED <<best_schedule, best_cost, no_improve_count>>)
          /\ (pc \in {"loop", "group"} /\ pc' \in {"loop", "group", "check"}) =>
               UNCHANGED <<best_schedule, best_cost, no_improve_count>>
          /\ (pc = "break") => pc' = "done"]_vars

\* local_search left its loop on stagnation with a best schedule better than
\* the seed
C20_Witness ==
  /\ IsLocalSearch
  /\ pc = "break"
  /\ best_schedule # schedule
  /\ no_improve_count = input.candidate_moves

(***************************************************************************)
(* C21. Simulated annealing acceptance bookkeeping, stated on the steps    *)
(* that end a feasible iteration: a candidate cheaper than current is      *)
(* accepted; a dearer one is accepted only on a draw strictly below the    *)
(* Metropolis threshold; no_improve_count becomes 0 when the accepted      *)
(* candidate is cheaper than best and grows by 1 otherwise.                *)
(***************************************************************************)
EndsFeasibleIteration ==
  IsAnnealing /\ pc = "check" /\ Feasible /\ pc' \in {"loop", "break"}

CandidateAccepted ==
  current_schedule' = candidate_schedule /\ current_cost' = candidate_cost

C21_AcceptanceBookkeeping ==
  [][EndsFeasibleIteration =>
       /\ CostLess(candidate_cost, current_cost) => CandidateAccepted
       /\ ~CandidateAccepted => UNCHANGED <<current_schedule, current_cost>>
       /\ (CostLess(current_cost, candidate_cost) /\ CandidateAccepted) =>
            /\ ~TemperatureIsZero
            /\ ~ThresholdIsZero(candidate_cost, current_cost, temperature)
            /\ rng.seeded =>
                 BelowThreshold(RngOutput(RngAdvance(rng.x)), candidate_cost,
                                current_cost, temperature)
       /\ no_improve_count' =
            IF CandidateAccepted /\ CostLess(candidate_cost, best_cost)
            THEN 0 ELSE no_improve_count + 1]_vars

\* a candidate dearer than the best was accepted and counted as no improvement
C21_Witness ==
  /\ IsAnnealing
  /\ pc \in {"loop", "break"}
  /\ current_schedule # schedule
  /\ CostLess(best_cost, current_cost)
  /\ no_improve_count >= 1

(***************************************************************************)
(* C22. Relocate moves strictly earlier: in a candidate built by the       *)
(* relocate move exactly one task stands in another slot than in the       *)
(* schedule the candidate was copied from, that slot is strictly earlier   *)
(* than its old one, and every other task stands in its old slot.          *)
(***************************************************************************)
SlotsOf(S, p) == {pos[1] : pos \in PositionsOf(S, p)}

MovedTasks == {p \in AllTasks(input) : SlotsOf(candidate_schedule, p) # SlotsOf(Base, p)}

RelocateApplied == IsDriverCall /\ pc = "check" /\ move.kind = "relocate"

C22_RelocateEarlier ==
  RelocateApplied =>
    /\ Cardinality(MovedTasks) = 1
    /\ \A p \in MovedTasks :
         /\ SlotsOf(candidate_schedule, p) # {}
         /\ \A old \in SlotsOf(Base, p) : \A new \in SlotsOf(candidate_schedule, p) :
              new < old /\ old >= 2
    /\ move.t_to < move.t_from
    /\ move.t_from >= 1
    /\ EntryCount(candidate_schedule) = EntryCount(Base)

\* a relocation put a task behind the first entry of an earlier slot
C22_Witness ==
  /\ RelocateApplied
  /\ Cardinality(MovedTasks) = 1
  /\ move.insert_idx >= 1

(***************************************************************************)
(* C23. Greedy slot maximality: greedy_schedule goes on to the next slot   *)
(* only when no ready task fits in what is left of the slot, tasks made    *)
(* ready by a placement in this slot included; a task placed in the slot   *)
(* of a predecessor stands after it.                                       *)
(***************************************************************************)
C23_SlotMaximality ==
  /\ [][(pc = "greedy" /\ t' = t + 1) => FittingTasks = {}]_vars
  /\ [](pc = "greedy" =>
          \A k \in 0..(NumAgents(input) - 1) : \A e \in EdgesOf(k) :
            \A pu \in PositionsOf(schedule, <<k, e[1]>>) :
              \A pv \in PositionsOf(schedule, <<k, e[2]>>) : Before(pu, pv))

\* a task stands in the slot of its predecessor, and the constructor has gone
\* on to a later slot
C23_Witness ==
  /\ pc = "greedy"
  /\ t >= 1
  /\ \E k \in 0..(NumAgents(input) - 1) : \E e \in EdgesOf(k) :
       \E pu \in PositionsOf(schedule, <<k, e[1]>>) :
         \E pv \in PositionsOf(schedule, <<k, e[2]>>) :
           pu[1] = pv[1] /\ pu[2] < pv[2]

(***************************************************************************)
(* C24. Multi-swap keeps slot loads: the group taken from slot t_to has at *)
(* least two distinct entries whose sizes add up to the size of the task   *)
(* taken from slot t_from, and every slot of the candidate has the load it *)
(* has in the schedule the candidate was copied from.                      *)
(***************************************************************************)
RECURSIVE SizeOfGroup(_)
SizeOfGroup(g) ==
  IF g = {} THEN 0
  ELSE LET i == CHOOSE x \in g : TRUE
       IN TaskSizeOf(EntryBefore(i)) + SizeOfGroup(g \ {i})

C24_MultiSwapKeepsLoads ==
  MultiSwapApplied =>
    /\ Cardinality(move.found_group) >= 2
    /\ Cardinality({EntryBefore(i) : i \in move.found_group}) =
         Cardinality(move.found_group)
    /\ SizeOfGroup(move.found_group) =
         TaskSizeOf(Base[move.t_from + 1][move.idx_from + 1])
    /\ \A s \in 1..Len(Base) : LoadOf(candidate_schedule[s]) = LoadOf(Base[s])

\* a multi-swap exchanged a task of size 2 or more for a group
C24_Witness ==
  /\ MultiSwapApplied
  /\ TaskSizeOf(Base[move.t_from + 1][move.idx_from + 1]) >= 2
  /\ Len(candidate_schedule[move.t_from + 1]) > Len(Base[move.t_from + 1])

(***************************************************************************)
(* C25. Cost bookkeeping of simulated annealing: at the start of every     *)
(* iteration current_cost is the cost of current_schedule, best_cost is    *)
(* the cost of best_schedule, and best_cost <= current_cost.               *)
(***************************************************************************)
C25_CostBookkeeping ==
  (IsAnnealing /\ pc = "loop") =>
    /\ CostEq(current_cost, evaluate_max_agent_cost(current_schedule, num_agents))
    /\ CostEq(best_cost, evaluate_max_agent_cost(best_schedule, num_agents))
    /\ CostLeq(best_cost, current_cost)

\* an iteration starts with a best schedule better than the seed and a current
\* schedule worse than the best
C25_Witness ==
  /\ IsAnnealing
  /\ pc = "loop"
  /\ iteration >= 2
  /\ iteration < input.max_iter
  /\ best_schedule # schedule
  /\ CostLess(best_cost, current_cost)

====
